---- MODULE Spec2Model ----
(***************************************************************************)
(* Model of command/format/state.go: the state formatter State, the module *)
(* walker formatStateModule and the legacy list/map renderers.             *)
(*                                                                         *)
(* Sorted strings (resource keys, output names) are sequences of character *)
(* codes, so that sort.Strings is modelled as the byte-wise lexicographic  *)
(* sort it is.  The output buffer is the sequence of the chunks written by *)
(* the WriteString calls, in order; every chunk records the verb arguments *)
(* of its format string.  The legacy renderers work on character           *)
(* sequences.                                                              *)
(***************************************************************************)
EXTENDS Integers, Sequences, FiniteSets, TLC

VARIABLES
    opts,       \* State: the *StateOpts argument
    m,          \* formatStateModule: the *states.Module argument
    modQueue,   \* State: modules still to visit by `range s.Modules`
    names,      \* formatStateModule: sorted resource keys still to visit
    key,        \* formatStateModule: resource key of the outer loop
    instQueue,  \* formatStateModule: instance keys still to visit by `range instances`
    taintStr,   \* formatStateModule: local taintStr
    buf,        \* p.buf
    pc,         \* position in the code
    ret,        \* where formatStateModule returns to
    result,     \* the returned string
    args        \* arguments of a legacy renderer call

vars == <<opts, m, modQueue, names, key, instQueue, taintStr, buf, pc, ret, result, args>>

----------------------------------------------------------------------------
(* Bounds *)

MaxInstances == 2       \* instances in the module given to formatStateModule
MaxStateInstances == 1  \* instances in a whole state given to State
MaxOutputs == 2         \* output values of the root module
MaxLen == 3             \* elements of a legacy list

----------------------------------------------------------------------------
(* Go strings that get sorted: sequences of character codes
   (1 = 'a', 2 = 'b').  "a" < "ab" < "b".  The resource keys are "ab" and
   "b" (KeySeq), the output names "a", "ab" and "b". *)

OutputNames == {<<1>>, <<1, 2>>, <<2>>}
InstanceKeys == {0, 1}
OutputVals == {1, 2}

\* Go's string comparison: byte-wise lexicographic
RECURSIVE StrLess(_, _)
StrLess(s, t) ==
    IF t = <<>> THEN FALSE
    ELSE IF s = <<>> THEN TRUE
    ELSE IF Head(s) # Head(t) THEN Head(s) < Head(t)
    ELSE StrLess(Tail(s), Tail(t))

\* insertion of one string into an ascending sequence
RECURSIVE InsertSorted(_, _)
InsertSorted(x, s) ==
    IF s = <<>> THEN <<x>>
    ELSE IF StrLess(Head(s), x) THEN <<Head(s)>> \o InsertSorted(x, Tail(s))
    ELSE <<x>> \o s

RECURSIVE SortFrom(_)
SortFrom(s) == IF s = <<>> THEN <<>> ELSE InsertSorted(Head(s), SortFrom(Tail(s)))

\* a plausible slip: the collected keys are used as ranged, unsorted
SortStringsSkipped(s) == s

\* sort.Strings
SortStrings(s) == SortFrom(s)

\* `for k := range aMap`: Go visits the keys in an unspecified order
MapRange(f) ==
    LET S == DOMAIN f
        n == Cardinality(S)
    IN {s \in [1..n -> S] : \A e \in S : \E i \in 1..n : s[i] = e}

----------------------------------------------------------------------------
(* The input: states.State, states.Module, states.Resource, instances *)

RootAddr == ""
ChildAddr == "child"
Modes == {"managed", "data", "invalid"}
TypeName == "example_type"

\* encoded attribute payloads: one the schema cannot decode, one with every
\* attribute set, one with a null attribute
Payloads == {"bad", "full", "partial"}
NullVal == "null"
AttrNames == {"id", "ami"}

InstanceObjs == [Status : {"T", "R"}, Attrs : Payloads]

\* the instance maps over the instance keys iks with exactly n instances
InstanceMaps(iks, n) ==
    UNION {[S -> InstanceObjs] : S \in {T \in SUBSET iks : Cardinality(T) = n}}

ResourcesOfSize(iks, n) ==
    {[Mode |-> md, Instances |-> im] : md \in Modes, im \in InstanceMaps(iks, n)}

Min(a, b) == IF a < b THEN a ELSE b

\* the resource maps over the keys of ks (a sequence) and the instance keys
\* iks with at most n instances in all
RECURSIVE ResourceMaps(_, _, _)
ResourceMaps(ks, iks, n) ==
    IF ks = <<>> THEN {<<>>}
    ELSE ResourceMaps(Tail(ks), iks, n) \cup
         UNION {
            {(Head(ks) :> res) @@ f :
                res \in ResourcesOfSize(iks, j), f \in ResourceMaps(Tail(ks), iks, n - j)}
            : j \in 0..Min(n, Cardinality(iks))}

KeySeq == <<<<1, 2>>, <<2>>>>

NoOutputs == [isNil |-> TRUE, kv |-> <<>>]

OutputMaps ==
    {NoOutputs} \cup
    {[isNil |-> FALSE, kv |-> f] :
        f \in UNION {[S -> OutputVals] : S \in {T \in SUBSET OutputNames : Cardinality(T) <= MaxOutputs}}}

\* addrs.Resource of the resource stored under key k
Addr(mod, k) == [Mode |-> mod.Resources[k].Mode, Type |-> TypeName, Name |-> k]

----------------------------------------------------------------------------
(* Collaborators of other files *)

\* terraform.Schemas: Providers[provider].ResourceTypes[type] / DataSources[type]
Schemas ==
    [ResourceTypes |-> [Attributes |-> AttrNames],
     DataSources |-> [Attributes |-> AttrNames]]

\* ResourceInstanceObjectSrc.Decode: the value and the error
Decode(payload) ==
    [err |-> payload = "bad",
     Value |-> IF payload = "full" THEN [id |-> "x1", ami |-> "ami-1"]
               ELSE [id |-> "x1", ami |-> NullVal]]

ctyGetAttrMaybeNull(val, name) == val[name]

IsNull(v) == v = NullVal

\* blockBodyDiffPrinter.writeValue(v, plans.NoOp, indent): the text of v
writeValue(v, indent) == <<[kind |-> "value", v |-> v, indent |-> indent]>>

\* colorstring.Colorize.Color: resolves the markup tokens
Colorize(text) ==
    [i \in 1..Len(text) |->
        IF text[i].kind = "reset" THEN [kind |-> "ansi", nl |-> text[i].nl] ELSE text[i]]

----------------------------------------------------------------------------
(* The chunks written to the buffer *)

\* "[reset]" followed by nl line breaks
ResetTok(nl) == [kind |-> "reset", nl |-> nl]

\* fmt.Sprintf("# %s: %s\n", addr.Instance(k), taintStr)
HeaderLine(addr, k, taint) ==
    [kind |-> "header", mode |-> addr.Mode, name |-> addr.Name, ik |-> k, taint |-> taint]

\* fmt.Sprintf("resource %q %q {\n", addr.Type, addr.Name) and the data form
OpenLine(word, addr) == [kind |-> "open", word |-> word, type |-> addr.Type, name |-> addr.Name]

\* addr.String()
RawAddr(addr) == [kind |-> "rawaddr", mode |-> addr.Mode, type |-> addr.Type, name |-> addr.Name]

\* fmt.Sprintf("    %s = ", name)
AttrPrefix(name) == [kind |-> "attr", attr |-> name]

NewLine == [kind |-> "nl"]

\* "}\n\n"
CloseLine == [kind |-> "close"]

\* "\nOutputs:\n\n"
OutputsHeader == [kind |-> "outputs"]

\* fmt.Sprintf("%s = ", k)
OutputPrefix(k) == [kind |-> "output", name |-> k]

EmptyMessage == "The state file is empty. No resources are represented."

----------------------------------------------------------------------------
(* formatStateModule *)

NilSchema == [isNil |-> TRUE, Attributes |-> {}]

\* the schema picked by the switch on addr.Mode; nil when no case matches
LookupSchema(addr) ==
    IF addr.Mode = "managed" THEN [isNil |-> FALSE, Attributes |-> Schemas.ResourceTypes.Attributes]
    ELSE IF addr.Mode = "data" THEN [isNil |-> FALSE, Attributes |-> Schemas.DataSources.Attributes]
    ELSE NilSchema

\* the chunk written by the switch on addr.Mode
OpeningChunk(addr) ==
    IF addr.Mode = "managed" THEN OpenLine("resource", addr)
    ELSE IF addr.Mode = "data" THEN OpenLine("data", addr)
    ELSE RawAddr(addr)

\* if v.Current.Status == 'T' { taintStr = "(tainted)" }
TaintFor(status, t) == IF status = "T" THEN "(tainted)" ELSE t

\* a plausible slip: taintStr is not cleared after the header is written
TaintKept(t) == t

\* taintStr = "" after the header line
TaintAfterHeader(t) == ""

\* the attribute loop over `range schema.Attributes`, visited in the given order
RECURSIVE AttrLines(_, _)
AttrLines(val, order) ==
    IF order = <<>> THEN <<>>
    ELSE LET name == Head(order)
             attr == ctyGetAttrMaybeNull(val, name)
         IN (IF ~IsNull(attr)
             THEN <<AttrPrefix(name)>> \o writeValue(attr, 4) \o <<NewLine>>
             ELSE <<>>) \o AttrLines(val, Tail(order))

\* a plausible slip: the closing line is not written
ClosingOmitted == <<>>

\* p.buf.WriteString("}\n\n")
ClosingChunk == <<CloseLine>>

\* the header line and the opening chunk of instance k of the current resource
HeaderAndOpening(k) ==
    LET addr == Addr(m, key)
        v == m.Resources[key].Instances[k]
    IN <<HeaderLine(addr, k, TaintFor(v.Status, taintStr)), OpeningChunk(addr)>>

\* entry: collect the resource keys and sort them
FormatStateModuleEnter ==
    /\ pc = "formatStateModule"
    /\ \E order \in MapRange(m.Resources) : names' = SortStrings(order)
    /\ pc' = "resources"
    /\ UNCHANGED <<opts, m, modQueue, key, instQueue, taintStr, buf, ret, result, args>>

\* for _, key := range names: next resource, its instances ranged in some order
ResourceNext ==
    /\ pc = "resources"
    /\ names # <<>>
    /\ key' = Head(names)
    /\ names' = Tail(names)
    /\ taintStr' = ""
    /\ \E order \in MapRange(m.Resources[Head(names)].Instances) : instQueue' = order
    /\ pc' = "instances"
    /\ UNCHANGED <<opts, m, modQueue, buf, ret, result, args>>

\* the outer loop is over: write "[reset]\n" and return
ResourcesDone ==
    /\ pc = "resources"
    /\ names = <<>>
    /\ buf' = Append(buf, ResetTok(1))
    /\ pc' = ret
    /\ UNCHANGED <<opts, m, modQueue, names, key, instQueue, taintStr, ret, result, args>>

\* one instance whose decode fails: header, opening chunk, then break
InstanceDecodeError ==
    /\ pc = "instances"
    /\ instQueue # <<>>
    /\ LET k == Head(instQueue)
           v == m.Resources[key].Instances[k]
       IN /\ Decode(v.Attrs).err
          /\ buf' = buf \o HeaderAndOpening(k)
          /\ taintStr' = TaintAfterHeader(TaintFor(v.Status, taintStr))
    /\ instQueue' = <<>>
    /\ pc' = "resources"
    /\ UNCHANGED <<opts, m, modQueue, names, key, ret, result, args>>

\* one instance that decodes, with a schema: header, opening chunk, the
\* attribute lines in the order `range schema.Attributes` yields, closing line
InstanceFormat ==
    /\ pc = "instances"
    /\ instQueue # <<>>
    /\ LET k == Head(instQueue)
           v == m.Resources[key].Instances[k]
           schema == LookupSchema(Addr(m, key))
           val == Decode(v.Attrs)
       IN /\ ~val.err
          /\ ~schema.isNil
          /\ \E order \in MapRange([n \in schema.Attributes |-> TRUE]) :
                buf' = buf \o HeaderAndOpening(k) \o AttrLines(val.Value, order) \o ClosingChunk
          /\ taintStr' = TaintAfterHeader(TaintFor(v.Status, taintStr))
    /\ instQueue' = Tail(instQueue)
    /\ pc' = "instances"
    /\ UNCHANGED <<opts, m, modQueue, names, key, ret, result, args>>

\* one instance that decodes, of a resource whose mode matched no case:
\* schema is nil and `range schema.Attributes` dereferences it
InstanceNilSchema ==
    /\ pc = "instances"
    /\ instQueue # <<>>
    /\ LET k == Head(instQueue)
           v == m.Resources[key].Instances[k]
       IN /\ ~Decode(v.Attrs).err
          /\ LookupSchema(Addr(m, key)).isNil
          /\ buf' = buf \o HeaderAndOpening(k)
          /\ taintStr' = TaintAfterHeader(TaintFor(v.Status, taintStr))
    /\ pc' = "panic"
    /\ UNCHANGED <<opts, m, modQueue, names, key, instQueue, ret, result, args>>

\* the inner loop is over
InstancesDone ==
    /\ pc = "instances"
    /\ instQueue = <<>>
    /\ pc' = "resources"
    /\ UNCHANGED <<opts, m, modQueue, names, key, instQueue, taintStr, buf, ret, result, args>>

NextModule ==
    \/ FormatStateModuleEnter
    \/ ResourceNext
    \/ ResourcesDone
    \/ InstanceDecodeError
    \/ InstanceFormat
    \/ InstanceNilSchema
    \/ InstancesDone

NoOpts == [Color |-> TRUE, Schemas |-> TRUE, State |-> [Modules |-> <<>>]]
NoArgs == [fn |-> "none"]
NoModule == [Addr |-> RootAddr, Resources |-> <<>>, OutputValues |-> NoOutputs]

\* formatStateModule called on any module of at most MaxInstances instances
InitModule ==
    /\ opts = NoOpts
    /\ m \in {[Addr |-> a, Resources |-> r, OutputValues |-> NoOutputs] :
                a \in {RootAddr}, r \in ResourceMaps(KeySeq, InstanceKeys, MaxInstances)}
    /\ modQueue = <<>>
    /\ names = <<>>
    /\ key = <<>>
    /\ instQueue = <<>>
    /\ taintStr = ""
    /\ buf = <<>>
    /\ pc = "formatStateModule"
    /\ ret = "done"
    /\ result = <<>>
    /\ args = NoArgs

SpecModule == InitModule /\ [][NextModule]_vars

----------------------------------------------------------------------------
(* State *)

\* a plausible slip: the sentinel goes through the buffer, behind the reset token
EmptyStateViaBuffer == <<ResetTok(0), [kind |-> "text", s |-> EmptyMessage]>>

\* return "The state file is empty. No resources are represented."
EmptyStateResult == <<[kind |-> "text", s |-> EmptyMessage]>>

\* s.RootModule()
RootModule(s) == s.Modules[RootAddr]

\* the entries written for the output names of ks, in that order
RECURSIVE OutputLines(_, _)
OutputLines(kv, ks) ==
    IF ks = <<>> THEN <<>>
    ELSE <<OutputPrefix(Head(ks))>> \o writeValue(kv[Head(ks)], 0) \o OutputLines(kv, Tail(ks))

\* strings.TrimSpace on the buffer: the first chunk is "[reset]"; line breaks
\* at the end are dropped (a value and the raw address end without one)
RECURSIVE TrimSpace(_)
TrimSpace(text) ==
    IF text = <<>> THEN <<>>
    ELSE LET last == text[Len(text)]
             front == SubSeq(text, 1, Len(text) - 1)
         IN IF last.kind = "nl" THEN TrimSpace(front)
            ELSE IF last.kind = "reset" THEN Append(front, ResetTok(0))
            ELSE IF last.kind \in {"close", "header", "open", "outputs"}
                 THEN Append(front, [kind |-> "trimmed", of |-> last])
            ELSE text

\* if opts.Color == nil { panic("colorize not given") }
StatePanicColor ==
    /\ pc = "State"
    /\ ~opts.Color
    /\ pc' = "panic"
    /\ UNCHANGED <<opts, m, modQueue, names, key, instQueue, taintStr, buf, ret, result, args>>

\* if opts.Schemas == nil { panic("schemas not given") }
StatePanicSchemas ==
    /\ pc = "State"
    /\ opts.Color
    /\ ~opts.Schemas
    /\ pc' = "panic"
    /\ UNCHANGED <<opts, m, modQueue, names, key, instQueue, taintStr, buf, ret, result, args>>

\* if len(s.Modules) == 0 { return ... }
StateEmpty ==
    /\ pc = "State"
    /\ opts.Color
    /\ opts.Schemas
    /\ Cardinality(DOMAIN opts.State.Modules) = 0
    /\ result' = EmptyStateResult
    /\ pc' = "done"
    /\ UNCHANGED <<opts, m, modQueue, names, key, instQueue, taintStr, buf, ret, args>>

\* buf.WriteString("[reset]") and the start of `range s.Modules`
StateBegin ==
    /\ pc = "State"
    /\ opts.Color
    /\ opts.Schemas
    /\ Cardinality(DOMAIN opts.State.Modules) # 0
    /\ buf' = <<ResetTok(0)>>
    /\ \E order \in MapRange(opts.State.Modules) : modQueue' = order
    /\ pc' = "modules"
    /\ UNCHANGED <<opts, m, names, key, instQueue, taintStr, ret, result, args>>

\* formatStateModule(p, m, opts.Schemas) for the next module
StateModuleNext ==
    /\ pc = "modules"
    /\ modQueue # <<>>
    /\ m' = opts.State.Modules[Head(modQueue)]
    /\ modQueue' = Tail(modQueue)
    /\ ret' = "modules"
    /\ pc' = "formatStateModule"
    /\ UNCHANGED <<opts, names, key, instQueue, taintStr, buf, result, args>>

\* the outputs of the root module, sorted by name
StateOutputs ==
    /\ pc = "modules"
    /\ modQueue = <<>>
    /\ LET out == RootModule(opts.State).OutputValues
       IN IF out.isNil THEN buf' = buf
          ELSE \E ks \in MapRange(out.kv) :
                buf' = buf \o (IF Cardinality(DOMAIN out.kv) > 0 THEN <<OutputsHeader>> ELSE <<>>)
                           \o OutputLines(out.kv, SortStrings(ks))
    /\ m' = RootModule(opts.State)
    /\ pc' = "return"
    /\ UNCHANGED <<opts, modQueue, names, key, instQueue, taintStr, ret, result, args>>

\* return opts.Color.Color(strings.TrimSpace(p.buf.String()))
StateReturn ==
    /\ pc = "return"
    /\ result' = Colorize(TrimSpace(buf))
    /\ pc' = "done"
    /\ UNCHANGED <<opts, m, modQueue, names, key, instQueue, taintStr, buf, ret, args>>

Next ==
    \/ StatePanicColor
    \/ StatePanicSchemas
    \/ StateEmpty
    \/ StateBegin
    \/ StateModuleNext
    \/ StateOutputs
    \/ StateReturn
    \/ FormatStateModuleEnter
    \/ ResourceNext
    \/ ResourcesDone
    \/ InstanceDecodeError
    \/ InstanceFormat
    \/ InstanceNilSchema
    \/ InstancesDone

StateKeySeq == <<<<1, 2>>>>
StateInstanceKeys == {0}

\* the module maps: none, the root module, or the root and a child module,
\* with at most n instances in all; only the root module has output values
StateModules(n) ==
    {<<>>} \cup
    {(RootAddr :> [Addr |-> RootAddr, Resources |-> r, OutputValues |-> o]) :
        r \in ResourceMaps(StateKeySeq, StateInstanceKeys, n), o \in OutputMaps} \cup
    UNION {
        {(RootAddr :> [Addr |-> RootAddr, Resources |-> r, OutputValues |-> o]) @@
         (ChildAddr :> [Addr |-> ChildAddr, Resources |-> c, OutputValues |-> NoOutputs]) :
            r \in ResourceMaps(StateKeySeq, StateInstanceKeys, j),
            c \in ResourceMaps(StateKeySeq, StateInstanceKeys, n - j),
            o \in OutputMaps}
        : j \in 0..n}

\* State called with or without a colorizer and schemas on any such state
Init ==
    /\ opts \in {[Color |-> c, Schemas |-> sc, State |-> [Modules |-> ms]] :
                    c \in BOOLEAN, sc \in BOOLEAN, ms \in StateModules(MaxStateInstances)}
    /\ m = NoModule
    /\ modQueue = <<>>
    /\ names = <<>>
    /\ key = <<>>
    /\ instQueue = <<>>
    /\ taintStr = ""
    /\ buf = <<>>
    /\ pc = "State"
    /\ ret = "modules"
    /\ result = <<>>
    /\ args = NoArgs

Spec == Init /\ [][Next]_vars

----------------------------------------------------------------------------
(* The legacy renderers.  Text is a sequence of characters. *)

LF == "\n"

\* the character of a code, and the text of a string of codes
Chr(c) == IF c = 1 THEN "a" ELSE "b"
Text(codes) == [i \in 1..Len(codes) |-> Chr(codes[i])]

\* strings.TrimPrefix(s, "\n")
TrimPrefixLF(s) == IF s # <<>> /\ Head(s) = LF THEN Tail(s) ELSE s

Indent4 == <<" ", " ", " ", " ">>
Indent2 == <<" ", " ">>

\* formatNestedList: the loop over outputList from index i
RECURSIVE NestedListItems(_, _, _)
NestedListItems(indent, outputList, i) ==
    IF i > Len(outputList) THEN <<>>
    ELSE <<LF>> \o indent \o Indent4 \o outputList[i]
         \o (IF i # Len(outputList) THEN <<",">> ELSE <<>>)
         \o NestedListItems(indent, outputList, i + 1)

formatNestedList(indent, outputList) ==
    TrimPrefixLF(indent \o <<"[">> \o NestedListItems(indent, outputList, 1)
                 \o <<LF>> \o indent \o <<"]">>)

\* formatNestedMap: the loop over the sorted keys from index i
RECURSIVE NestedMapItems(_, _, _, _)
NestedMapItems(indent, outputMap, ks, i) ==
    IF i > Len(ks) THEN <<>>
    ELSE <<LF>> \o indent \o Indent4 \o Text(ks[i]) \o <<" ", "=", " ">> \o outputMap[ks[i]]
         \o (IF i # Cardinality(DOMAIN outputMap) THEN <<",">> ELSE <<>>)
         \o NestedMapItems(indent, outputMap, ks, i + 1)

\* the keys of a map, sorted; the order the map is ranged in does not show
SortedKeys(outputMap) == SortStrings(CHOOSE ks \in MapRange(outputMap) : TRUE)

formatNestedMap(indent, outputMap) ==
    TrimPrefixLF(indent \o <<"{">>
                 \o NestedMapItems(indent, outputMap, SortedKeys(outputMap), 1)
                 \o <<LF>> \o indent \o <<"}">>)

\* formatListOutput: the text of one element, by its runtime shape
ListElement(indent, keyIndent, value) ==
    IF value.shape = "string" THEN <<LF>> \o indent \o keyIndent \o value.s
    ELSE IF value.shape = "list" THEN <<LF>> \o indent \o formatNestedList(indent \o keyIndent, value.l)
    ELSE IF value.shape = "map" THEN <<LF>> \o indent \o formatNestedMap(indent \o keyIndent, value.mp)
    ELSE <<>>

\* formatListOutput: the loop over outputList from index i
RECURSIVE ListItems(_, _, _, _)
ListItems(indent, keyIndent, outputList, i) ==
    IF i > Len(outputList) THEN <<>>
    ELSE ListElement(indent, keyIndent, outputList[i])
         \o (IF Len(outputList) # i THEN <<",">> ELSE <<>>)
         \o ListItems(indent, keyIndent, outputList, i + 1)

\* a plausible slip: the closing bracket always goes on a line of its own
ListClosingOwnLine(indent, n) == <<LF>> \o indent \o <<"]">>

\* formatListOutput: the closing bracket of a named list of n elements
ListClosing(indent, n) == IF n > 0 THEN <<LF>> \o indent \o <<"]">> ELSE <<"]">>

formatListOutput(indent, outputName, outputList) ==
    LET named == outputName # <<>>
        keyIndent == IF named THEN Indent4 ELSE <<>>
    IN TrimPrefixLF(
        (IF named THEN indent \o outputName \o <<" ", "=", " ", "[">> ELSE <<>>)
        \o ListItems(indent, keyIndent, outputList, 1)
        \o (IF named THEN ListClosing(indent, Len(outputList)) ELSE <<>>))

\* formatMapOutput: the loop over the sorted keys
RECURSIVE MapItems(_, _, _, _)
MapItems(indent, keyIndent, outputMap, ks) ==
    IF ks = <<>> THEN <<>>
    ELSE <<LF>> \o indent \o keyIndent \o Text(Head(ks)) \o <<" ", "=", " ">> \o outputMap[Head(ks)]
         \o MapItems(indent, keyIndent, outputMap, Tail(ks))

\* formatMapOutput: the closing brace of a named map of n entries
MapClosing(indent, n) == IF n > 0 THEN <<LF>> \o indent \o <<"}">> ELSE <<"}">>

formatMapOutput(indent, outputName, outputMap) ==
    LET named == outputName # <<>>
        keyIndent == IF named THEN Indent2 ELSE <<>>
    IN TrimPrefixLF(
        (IF named THEN indent \o outputName \o <<" ", "=", " ", "{">> ELSE <<>>)
        \o MapItems(indent, keyIndent, outputMap, SortedKeys(outputMap))
        \o (IF named THEN MapClosing(indent, Cardinality(DOMAIN outputMap)) ELSE <<>>))

(* the arguments *)

LegacyIndents == {<<>>, Indent2}
LegacyNames == {<<>>, <<"n">>}
LegacyStrings == {<<"x">>, <<"y">>}
LegacyMaps == UNION {[S -> LegacyStrings] : S \in SUBSET {<<1>>, <<2>>}}
StringLists(n) == UNION {[1..k -> LegacyStrings] : k \in 0..n}

\* the runtime shapes of an element: a string, a nested list, a nested map,
\* or anything else (here an int)
LegacyElements ==
    {[shape |-> "string", s |-> <<"x">>],
     [shape |-> "list", l |-> <<>>],
     [shape |-> "list", l |-> <<<<"x">>>>],
     [shape |-> "map", mp |-> <<>>],
     [shape |-> "map", mp |-> (<<1>> :> <<"x">>)],
     [shape |-> "int", n |-> 5]}

LegacyLists == UNION {[1..k -> LegacyElements] : k \in 0..MaxLen}

CallFormatListOutput ==
    /\ pc = "call"
    /\ args.fn = "formatListOutput"
    /\ result' = formatListOutput(args.indent, args.outputName, args.outputList)
    /\ pc' = "done"
    /\ UNCHANGED <<opts, m, modQueue, names, key, instQueue, taintStr, buf, ret, args>>

CallFormatNestedList ==
    /\ pc = "call"
    /\ args.fn = "formatNestedList"
    /\ result' = formatNestedList(args.indent, args.outputList)
    /\ pc' = "done"
    /\ UNCHANGED <<opts, m, modQueue, names, key, instQueue, taintStr, buf, ret, args>>

CallFormatMapOutput ==
    /\ pc = "call"
    /\ args.fn = "formatMapOutput"
    /\ result' = formatMapOutput(args.indent, args.outputName, args.outputMap)
    /\ pc' = "done"
    /\ UNCHANGED <<opts, m, modQueue, names, key, instQueue, taintStr, buf, ret, args>>

CallFormatNestedMap ==
    /\ pc = "call"
    /\ args.fn = "formatNestedMap"
    /\ result' = formatNestedMap(args.indent, args.outputMap)
    /\ pc' = "done"
    /\ UNCHANGED <<opts, m, modQueue, names, key, instQueue, taintStr, buf, ret, args>>

NextLegacy ==
    \/ CallFormatListOutput
    \/ CallFormatNestedList
    \/ CallFormatMapOutput
    \/ CallFormatNestedMap

\* one call of a legacy renderer on any arguments within the bounds
InitLegacy ==
    /\ args \in
        {[fn |-> "formatListOutput", indent |-> i, outputName |-> n, outputList |-> l] :
            i \in LegacyIndents, n \in LegacyNames, l \in LegacyLists} \cup
        {[fn |-> "formatNestedList", indent |-> i, outputList |-> l] :
            i \in LegacyIndents, l \in StringLists(MaxLen)} \cup
        {[fn |-> "formatMapOutput", indent |-> i, outputName |-> n, outputMap |-> mp] :
            i \in LegacyIndents, n \in LegacyNames, mp \in LegacyMaps} \cup
        {[fn |-> "formatNestedMap", indent |-> i, outputMap |-> mp] :
            i \in LegacyIndents, mp \in LegacyMaps}
    /\ opts = NoOpts
    /\ m = NoModule
    /\ modQueue = <<>>
    /\ names = <<>>
    /\ key = <<>>
    /\ instQueue = <<>>
    /\ taintStr = ""
    /\ buf = <<>>
    /\ pc = "call"
    /\ ret = "done"
    /\ result = <<>>

SpecLegacy == InitLegacy /\ [][NextLegacy]_vars

----------------------------------------------------------------------------
(* Reading the buffer *)

Headers == {i \in 1..Len(buf) : buf[i].kind = "header"}

\* the instance a header line names
InstanceOf(i) == m.Resources[buf[i].name].Instances[buf[i].ik]

HasHeader(k, ik) == \E i \in Headers : buf[i].name = k /\ buf[i].ik = ik

\* the chunks of the block that starts at header i: up to the next header or
\* the module's reset token
BlockEnd(i) ==
    IF \E j \in (i + 1)..Len(buf) : buf[j].kind \in {"header", "reset"}
    THEN (CHOOSE j \in (i + 1)..Len(buf) :
            /\ buf[j].kind \in {"header", "reset"}
            /\ \A t \in (i + 1)..(j - 1) : buf[t].kind \notin {"header", "reset"}) - 1
    ELSE Len(buf)

BlockAttrPositions(i) == {t \in (i + 1)..BlockEnd(i) : buf[t].kind = "attr"}

\* header i is followed by an opening line, attribute lines only, and "}\n\n"
BlockClosed(i) ==
    /\ BlockEnd(i) >= i + 2
    /\ buf[BlockEnd(i)].kind = "close"
    /\ \A t \in (i + 2)..(BlockEnd(i) - 1) : buf[t].kind \in {"attr", "value", "nl"}

----------------------------------------------------------------------------
(* formatStateModule: claims, checked under SpecModule *)

\* C1 (as claimed): once formatStateModule has returned, every instance of
\* every resource of the module has its header line in the buffer, whether or
\* not another instance failed to decode, and its block is closed when its
\* own decode succeeds under a schema.
C1_OtherInstancesFormatted ==
    pc = "done" =>
        \A k \in DOMAIN m.Resources : \A ik \in DOMAIN m.Resources[k].Instances :
            /\ HasHeader(k, ik)
            /\ \A i \in Headers :
                (/\ buf[i].name = k
                 /\ buf[i].ik = ik
                 /\ ~Decode(m.Resources[k].Instances[ik].Attrs).err
                 /\ m.Resources[k].Mode # "invalid") => BlockClosed(i)

\* C2 (as claimed): the attribute lines of the instance blocks follow one
\* fixed order: no two blocks in the buffer list two attributes in opposite
\* orders.
C2_AttributeOrderFixed ==
    \A i, j \in Headers :
        \A p1, q1 \in BlockAttrPositions(i) : \A p2, q2 \in BlockAttrPositions(j) :
            (p1 < q1 /\ buf[p1].attr = buf[p2].attr /\ buf[q1].attr = buf[q2].attr) => p2 < q2

\* C3: every header line carries "(tainted)" exactly when the instance it
\* names is tainted, and nothing in its place otherwise.
C3_TaintMarker ==
    \A i \in Headers :
        buf[i].taint = (IF InstanceOf(i).Status = "T" THEN "(tainted)" ELSE "")

\* a tainted instance's header followed by the header of an untainted instance
\* of the same resource
C3_Witness ==
    \E i, j \in Headers :
        /\ i < j
        /\ buf[i].name = buf[j].name
        /\ InstanceOf(i).Status = "T"
        /\ InstanceOf(j).Status = "R"

\* C5: the blocks are written in ascending order of resource key: no header
\* of a smaller key comes after a header of a larger key.
C5_ResourceOrder ==
    \A i, j \in Headers : i < j => ~StrLess(buf[j].name, buf[i].name)

\* formatStateModule has returned after writing blocks of two resources
C5_Witness ==
    /\ pc = "done"
    /\ \E i, j \in Headers : buf[i].name # buf[j].name

\* C8: a block with an opening line is closed by "}\n\n" exactly when its
\* instance decodes; when the decode fails, the header and the opening line
\* are the whole block.
C8_ClosedIffDecoded ==
    \A i \in Headers :
        (i + 1 <= Len(buf) /\ buf[i + 1].kind = "open") =>
            /\ BlockClosed(i) <=> ~Decode(InstanceOf(i).Attrs).err
            /\ Decode(InstanceOf(i).Attrs).err => BlockEnd(i) = i + 1

\* a closed block and a block left open by a decode failure, both in the buffer
C8_Witness ==
    /\ \E i \in Headers : buf[i + 1].kind = "open" /\ BlockClosed(i)
    /\ \E i \in Headers : buf[i + 1].kind = "open" /\ Decode(InstanceOf(i).Attrs).err
    /\ pc = "done"

\* C9 (as claimed): a resource whose mode is neither managed nor data never
\* makes formatting panic, and once formatStateModule has returned each of
\* its instances has a header line followed by the raw address.
C9_InvalidModeContinues ==
    /\ pc # "panic"
    /\ pc = "done" =>
        \A k \in DOMAIN m.Resources : \A ik \in DOMAIN m.Resources[k].Instances :
            m.Resources[k].Mode = "invalid" =>
                \E i \in Headers :
                    /\ buf[i].name = k
                    /\ buf[i].ik = ik
                    /\ buf[i + 1].kind = "rawaddr"

----------------------------------------------------------------------------
(* State: claims, checked under Spec *)

RootOutputs == opts.State.Modules[RootAddr].OutputValues.kv

\* the chunk positions of the result that belong to the Outputs section
OutputPositions == {i \in 1..Len(result) : result[i].kind = "output"}

\* C6: in the returned text the output entries come after all module output,
\* one "name = value" entry per output of the root module, in strictly
\* ascending order of name, behind the "Outputs:" header when there is one.
C6_OutputsSorted ==
    (pc = "done" /\ DOMAIN opts.State.Modules # {}) =>
        LET n == Cardinality(DOMAIN RootOutputs)
            first == Len(result) - 2 * n + 1
        IN /\ Cardinality(OutputPositions) = n
           /\ \A t \in 1..n :
                LET e == result[first + 2 * (t - 1)]
                    v == result[first + 2 * (t - 1) + 1]
                IN /\ e.kind = "output"
                   /\ e.name \in DOMAIN RootOutputs
                   /\ v.kind = "value"
                   /\ v.v = RootOutputs[e.name]
                   /\ t > 1 => StrLess(result[first + 2 * (t - 2)].name, e.name)
           /\ n > 0 => result[first - 1].kind = "outputs"
           /\ \A i \in 1..Len(result) :
                result[i].kind = "outputs" => (n > 0 /\ i = first - 1)

\* State has returned the text of a state whose root module has two outputs
C6_Witness ==
    /\ pc = "done"
    /\ DOMAIN opts.State.Modules # {}
    /\ Cardinality(DOMAIN RootOutputs) = 2
    /\ Cardinality(OutputPositions) = 2

\* C7: with a colorizer and schemas, a state without modules makes State
\* return exactly the sentinel sentence: nothing is written to the buffer
\* and neither the module walk nor the Outputs section is entered.
C7_EmptyState ==
    (opts.Color /\ opts.Schemas /\ DOMAIN opts.State.Modules = {}) =>
        /\ pc \in {"State", "done"}
        /\ buf = <<>>
        /\ pc = "done" =>
            result = <<[kind |-> "text",
                        s |-> "The state file is empty. No resources are represented."]>>

\* State has returned for a state without modules
C7_Witness ==
    /\ pc = "done"
    /\ ret = "modules"
    /\ opts.Color
    /\ opts.Schemas
    /\ DOMAIN opts.State.Modules = {}
    /\ result # <<>>

----------------------------------------------------------------------------
(* The legacy renderers: claims, checked under SpecLegacy *)

HasLineBreak(text) == \E i \in 1..Len(text) : text[i] = LF

\* the two characters a, b next to each other somewhere in text
HasPair(text, a, b) == \E i \in 1..(Len(text) - 1) : text[i] = a /\ text[i + 1] = b

IsListCall == args.fn \in {"formatListOutput", "formatNestedList"}
IsMapCall == args.fn \in {"formatMapOutput", "formatNestedMap"}
EmptyListCall == IsListCall /\ args.outputList = <<>>
EmptyMapCall == IsMapCall /\ DOMAIN args.outputMap = {}
Named == args.fn \in {"formatListOutput", "formatMapOutput"} /\ args.outputName # <<>>

RECURSIVE Recognized(_)
Recognized(l) ==
    IF l = <<>> THEN <<>>
    ELSE (IF Head(l).shape \in {"string", "list", "map"} THEN <<Head(l)>> ELSE <<>>)
         \o Recognized(Tail(l))

\* C10 (as claimed): formatListOutput returns for a list what it returns for
\* the same list without its elements of an unrecognized shape.
C10_UnrecognizedSkipped ==
    (pc = "done" /\ args.fn = "formatListOutput") =>
        result = formatListOutput(args.indent, args.outputName, Recognized(args.outputList))

====
